---- MODULE Spec2Model ----
(***************************************************************************)
(* Model of the two upload/progress controllers of the resume analyzer     *)
(* frontend:                                                               *)
(*   - ResumeAnalyzer (components/ResumeAnalyzer.tsx): file input, the     *)
(*     Start Analysis button, the 2000 ms progress interval and the        *)
(*     fetch/response handling of startAnalysis;                           *)
(*   - FileUpload (components/ui/file-upload.tsx): the drag-and-drop       *)
(*     intake with its simulated 200 ms upload interval.                   *)
(* JavaScript is single threaded: every callback (event handler, interval  *)
(* tick, continuation after an await) runs to completion, so each is one   *)
(* action.  startAnalysis suspends at its awaits; `pc` is its position.    *)
(***************************************************************************)
EXTENDS Integers, Sequences, FiniteSets, TLC

(* ---------------- bounds of the model ---------------- *)
\* number of analyses (clicks that start a request) explored
MaxAttempts == 2
\* number of drops on the drop zone explored
MaxDrops == 2
\* number of files in one drop
MaxDropLen == 2
\* largest whole number of units (bytes, KB, MB) among the sizes formatted
MaxUnits == 15

(* ---------------- values ---------------- *)
NoFile == "NoFile"
Files == {"cv1.pdf", "cv2.pdf"}
Null == "null"
\* bodies of a 2xx response that parse as JSON (opaque AnalysisResult payloads)
Payloads == {"result87", "result42"}
\* a body on which response.json() rejects
Unparseable == "unparseable"
\* err.message of the SyntaxError response.json() rejects with
ParseMessage == "Unexpected token < in JSON at position 0"
\* err.message of the TypeError fetch rejects with when there is no response
\* (the text is the browser's)
TransportMessages == {"Failed to fetch", "Load failed"}
\* parsed bodies of a non-2xx response: the value of their `error` field
\* ("" stands for an absent or empty field: both are falsy for ||)
ErrorFields == {"model unavailable", ""}
NoResponse == [ok |-> FALSE, body |-> "none"]

(* ---------------- ResumeAnalyzer constants ---------------- *)
\* the ceiling the updater holds the bar at
ProgressCap == 95
\* Math.floor(Math.random() * 10) is one of 0 .. 9
RandomRange == 10
FallbackMessage == "Failed to analyze resume"

VARIABLES
    file,            \* useState<File | null>
    isAnalyzing,     \* useState(false)
    analysisResult,  \* useState<AnalysisResult | null>
    isLoading,       \* useState(false)
    progress,        \* useState(0)
    intervalRef,     \* useRef(null): handle of the last interval created (0 = null)
    timers,          \* handles of the intervals that are still scheduled
    loadingTimeouts, \* pending setTimeout(..., 500) callbacks
    pc,              \* position of startAnalysis: idle, fetch, errJson, json
    response,        \* the Response fetch resolved with, while it is being read
    reqFile,         \* the file appended to the FormData of the request
    attempts,        \* number of fetch calls issued so far
    alerted,         \* text of the last alert() shown
    lastClick,       \* outcome of the last click on the Start Analysis button
    \* ---- FileUpload ----
    selectedFile,    \* useState<File | null>
    uploadProgress,  \* useState(0)
    uploadStatus,    \* useState('idle'): idle, uploading, success, error
    errorMessage,    \* useState('')
    uploadTimers,    \* scheduled 200 ms intervals, each with its closure
    selectCalls,     \* arguments of the onFileSelect calls made so far
    removeCalls,     \* number of onFileRemove calls made so far
    drops,           \* number of drops delivered to onDrop so far
    lastDropped,     \* the files of the last drop, as the user dropped them
    shownBytes,      \* the size last passed to formatFileSize
    shownSize        \* the text formatFileSize returned for it

raVars == <<file, isAnalyzing, analysisResult, isLoading, progress, intervalRef,
            timers, loadingTimeouts, pc, response, reqFile, attempts, alerted,
            lastClick>>

fuVars == <<selectedFile, uploadProgress, uploadStatus, errorMessage,
            uploadTimers, selectCalls, removeCalls, drops, lastDropped>>

vars == <<file, isAnalyzing, analysisResult, isLoading, progress, intervalRef,
          timers, loadingTimeouts, pc, response, reqFile, attempts, alerted,
          lastClick, selectedFile, uploadProgress, uploadStatus, errorMessage,
          uploadTimers, selectCalls, removeCalls, drops, lastDropped,
          shownBytes, shownSize>>

fmtVars == <<shownBytes, shownSize>>

(* ======================= ResumeAnalyzer ======================= *)

InitRA ==
    /\ file = NoFile
    /\ isAnalyzing = FALSE
    /\ analysisResult = Null
    /\ isLoading = FALSE
    /\ progress = 0
    /\ intervalRef = 0
    /\ timers = {}
    /\ loadingTimeouts = 0
    /\ pc = "idle"
    /\ response = NoResponse
    /\ reqFile = NoFile
    /\ attempts = 0
    /\ alerted = "none"
    /\ lastClick = "none"

\* clearInterval(intervalRef.current)
ClearInterval(ts, ref) == ts \ {ref}

\* onChange of the file input: e.target.files[0] is absent when the dialog
\* is cancelled (f = NoFile), and then nothing is set
handleFileChange(f) ==
    /\ file' = IF f # NoFile THEN f ELSE file
    /\ UNCHANGED <<isAnalyzing, analysisResult, isLoading, progress, intervalRef,
                   timers, loadingTimeouts, pc, response, reqFile, attempts,
                   alerted, lastClick>>

\* the button guard without the busy flag
StartDisabled_NoBusyGuard == file = NoFile

\* disabled={isAnalyzing || !file} of the Start Analysis button
StartDisabled == isAnalyzing \/ file = NoFile

\* startAnalysis up to its first await (the fetch call)
startAnalysis ==
    IF file = NoFile
    THEN /\ alerted' = "Please upload a resume first."
         /\ UNCHANGED <<file, isAnalyzing, analysisResult, isLoading, progress,
                        intervalRef, timers, loadingTimeouts, pc, response,
                        reqFile, attempts>>
    ELSE /\ isAnalyzing' = TRUE
         /\ analysisResult' = Null
         /\ isLoading' = TRUE
         /\ progress' = 0
         /\ reqFile' = file
         /\ intervalRef' = attempts + 1
         /\ timers' = timers \cup {attempts + 1}
         /\ attempts' = attempts + 1
         /\ pc' = "fetch"
         /\ UNCHANGED <<file, loadingTimeouts, response, alerted>>

\* a click on the Start Analysis button: a disabled button dispatches nothing
ClickStart ==
    IF StartDisabled
    THEN /\ lastClick' = "ignored"
         /\ UNCHANGED <<file, isAnalyzing, analysisResult, isLoading, progress,
                        intervalRef, timers, loadingTimeouts, pc, response,
                        reqFile, attempts, alerted>>
    ELSE /\ attempts < MaxAttempts
         /\ lastClick' = "started"
         /\ startAnalysis

\* the updater passed to setProgress by the interval callback
ProgressUpdater(prev, inc) ==
    IF prev >= ProgressCap THEN ProgressCap ELSE prev + inc

\* one firing of the 2000 ms interval t.  React applies queued state
\* updates in the order they were queued, so an updater queued by a tick
\* takes effect before a setProgress(100) or setProgress(0) issued by a later
\* continuation; the tick and its updater are one step.
Tick(t) ==
    /\ t \in timers
    /\ \E inc \in 0 .. (RandomRange - 1) :
          progress' = ProgressUpdater(progress, inc)
    /\ timers' = IF progress >= ProgressCap
                 THEN ClearInterval(timers, intervalRef) ELSE timers
    /\ UNCHANGED <<file, isAnalyzing, analysisResult, isLoading, intervalRef,
                   loadingTimeouts, pc, response, reqFile, attempts, alerted,
                   lastClick>>

\* the catch block without setProgress(0)
Catch_NoReset(message) ==
    /\ alerted' = "Error: " \o message
    /\ timers' = timers \ {intervalRef}
    /\ isLoading' = FALSE
    /\ isAnalyzing' = FALSE
    /\ pc' = "idle"
    /\ response' = NoResponse
    /\ UNCHANGED <<file, analysisResult, progress, intervalRef, loadingTimeouts,
                   reqFile, attempts, lastClick>>

\* the catch block without the finally that clears the busy flag
Catch_NoFinally(message) ==
    /\ alerted' = "Error: " \o message
    /\ timers' = timers \ {intervalRef}
    /\ isLoading' = FALSE
    /\ progress' = 0
    /\ pc' = "idle"
    /\ response' = NoResponse
    /\ UNCHANGED <<file, isAnalyzing, analysisResult, intervalRef,
                   loadingTimeouts, reqFile, attempts, lastClick>>

\* catch (err) { ... } finally { setIsAnalyzing(false) }
Catch(message) ==
    /\ alerted' = "Error: " \o message
    /\ timers' = ClearInterval(timers, intervalRef)
    /\ isLoading' = FALSE
    /\ progress' = 0
    /\ isAnalyzing' = FALSE
    /\ pc' = "idle"
    /\ response' = NoResponse
    /\ UNCHANGED <<file, analysisResult, intervalRef, loadingTimeouts, reqFile,
                   attempts, lastClick>>

\* fetch rejects: no response was obtained
FetchReject ==
    /\ pc = "fetch"
    /\ \E m \in TransportMessages : Catch(m)

\* fetch resolves with a response; startAnalysis goes on to await response.json()
FetchResolve ==
    /\ pc = "fetch"
    /\ \E ok \in BOOLEAN :
       \E body \in (IF ok THEN Payloads ELSE ErrorFields) \cup {Unparseable} :
          /\ response' = [ok |-> ok, body |-> body]
          /\ pc' = IF ok THEN "json" ELSE "errJson"
    /\ UNCHANGED <<file, isAnalyzing, analysisResult, isLoading, progress,
                   intervalRef, timers, loadingTimeouts, reqFile, attempts,
                   alerted, lastClick>>

\* the structured error dropped in favour of the fallback
ErrorMessageOf_AlwaysFallback(errorField) == FallbackMessage

\* errorData.error || "Failed to analyze resume"
ErrorMessageOf(errorField) ==
    IF errorField # "" THEN errorField ELSE FallbackMessage

\* !response.ok: await response.json() settles, then throw new Error(...)
ErrorBodySettle ==
    /\ pc = "errJson"
    /\ IF response.body = Unparseable
       THEN Catch(ParseMessage)
       ELSE Catch(ErrorMessageOf(response.body))

\* the success path without clearInterval(intervalRef.current)
Succeed_NoClear(data) ==
    /\ analysisResult' = data
    /\ progress' = 100
    /\ loadingTimeouts' = loadingTimeouts + 1
    /\ isAnalyzing' = FALSE
    /\ pc' = "idle"
    /\ response' = NoResponse
    /\ UNCHANGED <<file, isLoading, intervalRef, timers, reqFile, attempts,
                   alerted, lastClick>>

\* the success path without setProgress(100)
Succeed_NoFinalValue(data) ==
    /\ analysisResult' = data
    /\ timers' = timers \ {intervalRef}
    /\ loadingTimeouts' = loadingTimeouts + 1
    /\ isAnalyzing' = FALSE
    /\ pc' = "idle"
    /\ response' = NoResponse
    /\ UNCHANGED <<file, isLoading, progress, intervalRef, reqFile, attempts,
                   alerted, lastClick>>

\* the try block after `const data = await response.json()`, then finally
Succeed(data) ==
    /\ analysisResult' = data
    /\ timers' = ClearInterval(timers, intervalRef)
    /\ progress' = 100
    /\ loadingTimeouts' = loadingTimeouts + 1
    /\ isAnalyzing' = FALSE
    /\ pc' = "idle"
    /\ response' = NoResponse
    /\ UNCHANGED <<file, isLoading, intervalRef, reqFile, attempts, alerted,
                   lastClick>>

\* response.ok: await response.json() settles
BodySettle ==
    /\ pc = "json"
    /\ IF response.body = Unparseable
       THEN Catch(ParseMessage)
       ELSE Succeed(response.body)

\* setTimeout(() => setIsLoading(false), 500)
LoadingTimeout ==
    /\ loadingTimeouts > 0
    /\ loadingTimeouts' = loadingTimeouts - 1
    /\ isLoading' = FALSE
    /\ UNCHANGED <<file, isAnalyzing, analysisResult, progress, intervalRef,
                   timers, pc, response, reqFile, attempts, alerted, lastClick>>

SelectFile ==
    /\ \E f \in Files \cup {NoFile} : handleFileChange(f)
    /\ UNCHANGED <<fuVars, fmtVars>>

StartClick == ClickStart /\ UNCHANGED <<fuVars, fmtVars>>

TimerTick ==
    /\ \E t \in timers : Tick(t)
    /\ UNCHANGED <<fuVars, fmtVars>>

TransportFailure == FetchReject /\ UNCHANGED <<fuVars, fmtVars>>

ResponseArrives == FetchResolve /\ UNCHANGED <<fuVars, fmtVars>>

ErrorBodyRead == ErrorBodySettle /\ UNCHANGED <<fuVars, fmtVars>>

BodyRead == BodySettle /\ UNCHANGED <<fuVars, fmtVars>>

LoadingCleared == LoadingTimeout /\ UNCHANGED <<fuVars, fmtVars>>

(* ========================= FileUpload ========================= *)

\* maxSize = 10 * 1024 * 1024
maxSize == 10 * 1024 * 1024
\* Math.random() * 30, taken in whole percent: 0 .. 29
UploadRandomRange == 30
\* the `disabled` prop (its default)
disabledProp == FALSE

\* dropped files: name, size in bytes, and whether the type matches
\* accept = {'application/pdf': ['.pdf']}
Candidates ==
    { [name |-> "one.pdf",   size |-> 1048576,          pdf |-> TRUE],
      [name |-> "ten.pdf",   size |-> maxSize,          pdf |-> TRUE],
      [name |-> "big.pdf",   size |-> 15 * 1024 * 1024, pdf |-> TRUE],
      [name |-> "notes.txt", size |-> 1048576,          pdf |-> FALSE],
      [name |-> "big.txt",   size |-> 15 * 1024 * 1024, pdf |-> FALSE] }

\* selectedFile = null
NoSelection == [name |-> "", size |-> 0, pdf |-> FALSE]

\* what the user can drop at once: one file or two
DroppedLists == UNION { [1 .. n -> Candidates] : n \in 1 .. MaxDropLen }

InitFU ==
    /\ selectedFile = NoSelection
    /\ uploadProgress = 0
    /\ uploadStatus = "idle"
    /\ errorMessage = ""
    /\ uploadTimers = {}
    /\ selectCalls = <<>>
    /\ removeCalls = 0
    /\ drops = 0
    /\ lastDropped = <<>>

\* the error codes react-dropzone attaches to one file under the options
\* {accept, maxSize}
FileErrors(c) ==
    (IF c.pdf THEN {} ELSE {"file-invalid-type"})
        \cup (IF c.size > maxSize THEN {"file-too-large"} ELSE {})

Passes(c) == FileErrors(c) = {}

Fails(c) == FileErrors(c) # {}

RejectionOf(c) == [file |-> c, errors |-> FileErrors(c)]

TooManyOf(c) == [file |-> c, errors |-> {"too-many-files"}]

\* acceptedFiles handed to onDrop under multiple: false
AcceptedFiles(dropped) ==
    IF Len(SelectSeq(dropped, Passes)) > 1 THEN <<>>
    ELSE SelectSeq(dropped, Passes)

\* rejectedFiles handed to onDrop under multiple: false
RejectedFiles(dropped) ==
    [i \in 1 .. Len(SelectSeq(dropped, Fails)) |->
        RejectionOf(SelectSeq(dropped, Fails)[i])]
        \o (IF Len(SelectSeq(dropped, Passes)) > 1
            THEN [i \in 1 .. Len(SelectSeq(dropped, Passes)) |->
                    TooManyOf(SelectSeq(dropped, Passes)[i])]
            ELSE <<>>)

\* the drop zone takes no drop while disabled; it is rendered only while
\* no file is selected
DropzoneDisabled == disabledProp \/ uploadStatus = "uploading"

\* the message chosen in the rejection branch of onDrop
RejectionMessage(rejection) ==
    IF "file-too-large" \in rejection.errors
    THEN "File is too large. Maximum size is "
            \o ToString((maxSize \div 1024) \div 1024) \o "MB"
    ELSE IF "file-invalid-type" \in rejection.errors
    THEN "Invalid file type. Please upload a PDF file."
    ELSE "File upload failed. Please try again."

\* onDrop without the `return` that ends the rejection branch
onDrop_NoReturn(acceptedFiles, rejectedFiles) ==
    IF Len(acceptedFiles) > 0
    THEN /\ selectedFile' = acceptedFiles[1]
         /\ uploadStatus' = "uploading"
         /\ errorMessage' = ""
         /\ uploadTimers' = uploadTimers
                \cup {[id |-> drops + 1, progress |-> 0, file |-> acceptedFiles[1]]}
         /\ UNCHANGED <<uploadProgress, selectCalls, removeCalls>>
    ELSE IF Len(rejectedFiles) > 0
    THEN /\ errorMessage' = RejectionMessage(rejectedFiles[1])
         /\ uploadStatus' = "error"
         /\ UNCHANGED <<selectedFile, uploadProgress, uploadTimers, selectCalls,
                        removeCalls>>
    ELSE UNCHANGED <<selectedFile, uploadProgress, uploadStatus, errorMessage,
                     uploadTimers, selectCalls, removeCalls>>

\* onDrop(acceptedFiles, rejectedFiles)
onDrop(acceptedFiles, rejectedFiles) ==
    IF Len(rejectedFiles) > 0
    THEN /\ errorMessage' = RejectionMessage(rejectedFiles[1])
         /\ uploadStatus' = "error"
         /\ UNCHANGED <<selectedFile, uploadProgress, uploadTimers, selectCalls,
                        removeCalls>>
    ELSE IF Len(acceptedFiles) > 0
    THEN /\ selectedFile' = acceptedFiles[1]
         /\ uploadStatus' = "uploading"
         /\ errorMessage' = ""
         /\ uploadTimers' = uploadTimers
                \cup {[id |-> drops + 1, progress |-> 0, file |-> acceptedFiles[1]]}
         /\ UNCHANGED <<uploadProgress, selectCalls, removeCalls>>
    ELSE UNCHANGED <<selectedFile, uploadProgress, uploadStatus, errorMessage,
                     uploadTimers, selectCalls, removeCalls>>

\* the interval callback without clearInterval(interval)
UploadInterval_NoClear(t, inc) ==
    IF t.progress + inc >= 100
    THEN /\ uploadTimers' = (uploadTimers \ {t}) \cup {[t EXCEPT !.progress = 100]}
         /\ uploadStatus' = "success"
         /\ selectCalls' = Append(selectCalls, t.file)
         /\ uploadProgress' = 100
         /\ UNCHANGED <<selectedFile, errorMessage, removeCalls, drops, lastDropped>>
    ELSE /\ uploadTimers' = (uploadTimers \ {t})
                \cup {[t EXCEPT !.progress = t.progress + inc]}
         /\ uploadProgress' = t.progress + inc
         /\ UNCHANGED <<selectedFile, uploadStatus, errorMessage, selectCalls,
                        removeCalls, drops, lastDropped>>

\* one firing of the 200 ms interval t with the random increment inc
UploadInterval(t, inc) ==
    IF t.progress + inc >= 100
    THEN /\ uploadTimers' = uploadTimers \ {t}
         /\ uploadStatus' = "success"
         /\ selectCalls' = Append(selectCalls, t.file)
         /\ uploadProgress' = 100
         /\ UNCHANGED <<selectedFile, errorMessage, removeCalls, drops, lastDropped>>
    ELSE /\ uploadTimers' = (uploadTimers \ {t})
                \cup {[t EXCEPT !.progress = t.progress + inc]}
         /\ uploadProgress' = t.progress + inc
         /\ UNCHANGED <<selectedFile, uploadStatus, errorMessage, selectCalls,
                        removeCalls, drops, lastDropped>>

\* removeFile, the onClick of the remove button
removeFile ==
    /\ selectedFile' = NoSelection
    /\ uploadProgress' = 0
    /\ uploadStatus' = "idle"
    /\ errorMessage' = ""
    /\ removeCalls' = removeCalls + 1
    /\ UNCHANGED <<uploadTimers, selectCalls, drops, lastDropped>>

DropFiles ==
    /\ selectedFile = NoSelection
    /\ ~DropzoneDisabled
    /\ drops < MaxDrops
    /\ drops' = drops + 1
    /\ \E dropped \in DroppedLists :
          /\ lastDropped' = dropped
          /\ onDrop(AcceptedFiles(dropped), RejectedFiles(dropped))
    /\ UNCHANGED <<raVars, fmtVars>>

UploadTick ==
    /\ \E t \in uploadTimers : \E inc \in 0 .. (UploadRandomRange - 1) :
          UploadInterval(t, inc)
    /\ UNCHANGED <<raVars, fmtVars>>

\* the remove button is rendered with a selected file and disabled while uploading
RemoveClick ==
    /\ selectedFile # NoSelection
    /\ uploadStatus # "uploading"
    /\ removeFile
    /\ UNCHANGED <<raVars, fmtVars>>

(* ======================= formatFileSize ======================= *)

\* const k = 1024
k == 1024
\* const sizes = ['Bytes', 'KB', 'MB', 'GB']
sizes == <<"Bytes", "KB", "MB", "GB">>

RECURSIVE Pow(_, _)
\* Math.pow(b, e)
Pow(b, e) == IF e = 0 THEN 1 ELSE b * Pow(b, e - 1)

\* Math.floor(Math.log(bytes) / Math.log(k)), for bytes >= 1 below k^4
UnitIndex(bytes) ==
    CHOOSE i \in 0 .. 3 : Pow(k, i) <= bytes /\ (i = 3 \/ bytes < Pow(k, i + 1))

\* (bytes / Math.pow(k, i)).toFixed(2), as a number of hundredths: the
\* quotient is exact in binary, and toFixed rounds it to the nearest
\* hundredth, a tie going up
Hundredths(bytes, i) ==
    (bytes \div Pow(k, i)) * 100
        + ((bytes % Pow(k, i)) * 100 + (Pow(k, i) \div 2)) \div Pow(k, i)

\* the string toFixed(2) returns: always two decimals
FixedText(h) ==
    ToString(h \div 100) \o "." \o ToString((h % 100) \div 10) \o ToString(h % 10)

\* the number kept without the parseFloat round trip
FloatText_KeepZeros(h) == FixedText(h)

\* parseFloat(fixed) converted back to a string by `+ ' '`: the shortest
\* decimal of the number, without trailing zeros or a bare point
FloatText(h) ==
    IF h % 100 = 0 THEN ToString(h \div 100)
    ELSE IF h % 10 = 0 THEN ToString(h \div 100) \o "." \o ToString((h % 100) \div 10)
    ELSE FixedText(h)

formatFileSize(bytes) ==
    IF bytes = 0 THEN "0 Bytes"
    ELSE FloatText(Hundredths(bytes, UnitIndex(bytes)))
            \o " " \o sizes[UnitIndex(bytes) + 1]

\* the sizes formatted: whole and fractional numbers of each unit, and the
\* sizes next to a change of unit
SizeInputs ==
    {0, k - 1, Pow(k, 2) - 1, Pow(k, 3) - 1, Pow(k, 3)}
        \cup { m * Pow(k, e) + (Pow(k, e) * f) \div 1000 :
                m \in 1 .. MaxUnits, e \in 0 .. 2, f \in {0, 1, 4, 5, 125, 250, 500, 996} }

\* {formatFileSize(selectedFile.size)} in the card of the selected file
RenderFileSize ==
    /\ \E bytes \in SizeInputs :
          /\ shownBytes' = bytes
          /\ shownSize' = formatFileSize(bytes)
    /\ UNCHANGED <<raVars, fuVars>>

\* nothing has been formatted yet
InitFmt ==
    /\ shownBytes = -1
    /\ shownSize = ""

(* ============================ Claims ============================ *)

\* the step in which the continuation of startAnalysis runs its catch block
\* for a transport failure or a non-2xx response
FailureStep == pc \in {"fetch", "errJson"} /\ pc' = "idle"

\* the step in which a 2xx response with a parseable body is handled
SuccessStep == pc = "json" /\ response.body # Unparseable /\ pc' = "idle"

\* a click on the Start Analysis button that arrives during an analysis
BusyClickStep == isAnalyzing /\ lastClick # "ignored" /\ lastClick' = "ignored"

\* a drop that validation rejects (some file rejected, or too many files)
RejectedDropStep == drops' = drops + 1 /\ Len(RejectedFiles(lastDropped')) > 0

\* C1: while the request is outstanding (no success confirmed) the
\* progress value never exceeds the cap of 95, so never equals 100.
C1_TickingStaysAtMostCap == isAnalyzing => progress <= ProgressCap

\* C2: during an analysis no step lowers the progress value.
C2_ProgressNonDecreasing ==
    [][(isAnalyzing /\ isAnalyzing') => progress' >= progress]_vars

\* C3 (as stated): a click during an analysis leaves the attempt untouched,
\* issues no second request and is reported as ConcurrentSubmission.
C3_BusyClickReported ==
    [][BusyClickStep =>
        /\ UNCHANGED <<file, isAnalyzing, analysisResult, isLoading, progress,
                       intervalRef, timers, loadingTimeouts, pc, response,
                       reqFile, attempts>>
        /\ alerted' = "ConcurrentSubmission"]_vars

\* C3 (amended): at most one submission is in flight: during an analysis no
\* step issues a request or creates a timer, at most one timer is scheduled,
\* and a click during an analysis changes nothing and reports nothing.
C3_SingleSubmission ==
    [][/\ isAnalyzing => (attempts' = attempts /\ intervalRef' = intervalRef)
       /\ Cardinality(timers') <= 1
       /\ (pc' # "idle") = isAnalyzing'
       /\ BusyClickStep =>
            UNCHANGED <<file, isAnalyzing, analysisResult, isLoading, progress,
                        intervalRef, timers, loadingTimeouts, pc, response,
                        reqFile, attempts, alerted>>]_vars

C3_Witness == isAnalyzing /\ lastClick = "ignored" /\ progress > 0 /\ timers # {}

\* C4: selecting another file during an analysis ends the analysis and
\* stops and resets its timer, and the response of the old attempt is
\* discarded when it arrives (no result, no error, progress unchanged).
C4_ReselectCancelsAttempt ==
    [][/\ (isAnalyzing /\ file' # file) =>
            (~isAnalyzing' /\ timers' = {} /\ progress' = 0)
       /\ (pc # "idle" /\ pc' = "idle" /\ reqFile # file) =>
            (analysisResult' = analysisResult /\ alerted' = alerted
                /\ progress' = progress)]_vars

\* C5: once the response handling has stopped the estimator (100 on
\* success, 0 on failure) no interval is left scheduled, and no step
\* outside an analysis changes the progress value.
C5_NoTickAfterStop ==
    [][/\ ~isAnalyzing' => timers' = {}
       /\ (~isAnalyzing /\ ~isAnalyzing') => progress' = progress]_vars

C5_Witness ==
    ~isAnalyzing /\ attempts = MaxAttempts /\ progress = 100 /\ timers = {}

\* C6: a 2xx response with a parseable body ends the attempt with progress
\* 100, the returned payload stored as the result, no alert, the busy flag
\* cleared and the timer stopped.
C6_SuccessOutcome ==
    [][SuccessStep =>
        /\ analysisResult' = response.body
        /\ progress' = 100
        /\ ~isAnalyzing'
        /\ alerted' = alerted
        /\ timers' = {}]_vars

C6_Witness ==
    /\ pc = "idle" /\ ~isAnalyzing /\ attempts > 0
    /\ analysisResult = "result42" /\ progress = 100 /\ alerted = "none"

\* the texts alert() can show for a caught error
FailureAlerts ==
    {"Error: " \o m :
        m \in TransportMessages \cup {ParseMessage, FallbackMessage}
                \cup (ErrorFields \ {""})}

\* C7: a transport failure or a non-2xx response ends the attempt in the
\* catch block: timer stopped, progress 0, no result, busy flag cleared,
\* the error shown by alert, and no further request issued.
C7_FailureOutcome ==
    [][FailureStep =>
        /\ timers' = {}
        /\ progress' = 0
        /\ analysisResult' = Null
        /\ ~isAnalyzing'
        /\ alerted' \in FailureAlerts
        /\ attempts' = attempts]_vars

C7_Witness ==
    /\ pc = "idle" /\ ~isAnalyzing /\ attempts > 0
    /\ analysisResult = Null /\ progress = 0 /\ timers = {}
    /\ alerted = "Error: " \o FallbackMessage

C9_RejectedDropKeepsStatus ==
    [][RejectedDropStep =>
        /\ uploadStatus' = uploadStatus
        /\ selectedFile' = NoSelection
        /\ uploadTimers' = uploadTimers
        /\ selectCalls' = selectCalls]_vars

\* C9 (amended): a rejected drop sets the status to error with the message
\* of the rejection and starts nothing: no file is selected, no timer is
\* created, onFileSelect is not called and the progress is unchanged.
C9_RejectedDropStartsNothing ==
    [][RejectedDropStep =>
        /\ uploadStatus' = "error"
        /\ errorMessage' = RejectionMessage(RejectedFiles(lastDropped')[1])
        /\ selectedFile' = NoSelection
        /\ uploadTimers' = {}
        /\ selectCalls' = selectCalls
        /\ uploadProgress' = uploadProgress]_vars

C9_Witness ==
    /\ uploadStatus = "error" /\ selectedFile = NoSelection
    /\ Len(lastDropped) = 1 /\ lastDropped[1].name = "big.pdf"
    /\ errorMessage = "File is too large. Maximum size is 10MB"

\* C10: every step that selects a file clears the result of the previous
\* attempt.
C10_SelectionClearsResult ==
    [][file' # file => analysisResult' = Null]_vars


\* C11 (as stated): sizes are shown with exactly two decimals: a whole
\* number m of a 1024-based unit as "m.00 unit", 1,048,576 bytes as "1.00 MB".
C11_TwoDecimals ==
    /\ shownBytes = 1048576 => shownSize = "1.00 MB"
    /\ \A m \in 1 .. MaxUnits : \A e \in 0 .. 2 :
          shownBytes = m * Pow(k, e)
              => shownSize = ToString(m) \o ".00 " \o sizes[e + 1]

\* C11 (amended): sizes are shown in 1024-based units rounded to two
\* decimals (a tie going up) with trailing zeros dropped: a whole number m
\* of a unit as "m unit", 1,048,576 bytes as "1 MB", 1536 as "1.5 KB".
C11_TrailingZerosDropped ==
    /\ shownBytes = 0 => shownSize = "0 Bytes"
    /\ shownBytes = 1048576 => shownSize = "1 MB"
    /\ shownBytes = Pow(k, 3) => shownSize = "1 GB"
    /\ shownBytes = 1536 => shownSize = "1.5 KB"
    /\ shownBytes = 1152 => shownSize = "1.13 KB"
    /\ shownBytes = 1048575 => shownSize = "1024 KB"
    /\ \A m \in 1 .. MaxUnits : \A e \in 0 .. 2 :
          shownBytes = m * Pow(k, e)
              => shownSize = ToString(m) \o " " \o sizes[e + 1]

C11_Witness == shownBytes = 1048576 /\ shownSize = "1 MB"

\* the attempt is over: the handler has run to its end, with the result of
\* a success (progress 100) or the reset of a failure (progress 0)
AttemptOver ==
    /\ ~isAnalyzing
    /\ pc = "idle"
    /\ \/ analysisResult # Null /\ progress = 100
       \/ analysisResult = Null /\ progress = 0

\* C12: an attempt that is in progress eventually ends, succeeded or
\* failed, with the busy flag cleared, the Start Analysis button enabled
\* again and no progress timer left scheduled (given that the request and
\* the reading of its body settle).
C12_SubmissionTerminates ==
    isAnalyzing ~> (AttemptOver /\ ~StartDisabled /\ timers = {})

C12_Witness ==
    /\ AttemptOver /\ ~StartDisabled /\ timers = {}
    /\ attempts > 0 /\ lastClick = "started"

\* C13: onFileSelect is called only by the tick that completes an upload:
\* that tick appends exactly one call, with the selected (accepted, never
\* rejected) file, sets the status to success and the progress to 100 and
\* clears the timer; no call is made before the progress reaches 100 or
\* while the status stays success; with no upload running no timer is
\* scheduled, so no later tick changes status or progress; and status
\* success implies progress 100 and a selected file.
C13_SelectCalledOnceOnCompletion ==
    [][/\ selectCalls' # selectCalls =>
            /\ selectCalls' = Append(selectCalls, selectedFile)
            /\ Passes(selectedFile) /\ lastDropped = <<selectedFile>>
            /\ uploadStatus = "uploading" /\ uploadProgress < 100
            /\ uploadStatus' = "success" /\ uploadProgress' = 100
            /\ uploadTimers' = {}
       /\ (uploadStatus = "uploading" /\ uploadStatus' # "uploading") =>
            Len(selectCalls') = Len(selectCalls) + 1
       /\ uploadStatus = "success" =>
            (selectCalls' = selectCalls /\ uploadProgress' \in {0, 100})
       /\ uploadStatus' = "uploading" =>
            /\ uploadProgress' < 100
            /\ \E t \in uploadTimers' :
                  uploadTimers' = {t} /\ t.file = selectedFile'
                      /\ t.progress < 100
       /\ uploadStatus' # "uploading" => uploadTimers' = {}
       /\ uploadStatus' = "success" =>
            (uploadProgress' = 100 /\ selectedFile' # NoSelection)]_vars

C13_Witness ==
    /\ uploadStatus = "success" /\ uploadProgress = 100 /\ uploadTimers = {}
    /\ removeCalls = 1 /\ Len(selectCalls) = 2 /\ selectCalls[2] = selectedFile

Init == InitRA /\ InitFU /\ InitFmt

Next ==
    \/ SelectFile
    \/ StartClick
    \/ TimerTick
    \/ TransportFailure
    \/ ResponseArrives
    \/ ErrorBodyRead
    \/ BodyRead
    \/ LoadingCleared

\* the ResumeAnalyzer component
Spec == Init /\ [][Next]_vars

NextFU ==
    \/ DropFiles
    \/ UploadTick
    \/ RemoveClick

\* the FileUpload component
SpecFU == Init /\ [][NextFU]_vars

\* the request settles (fetch resolves or rejects), and so does the reading
\* of the body; a continuation that is ready is run by the event loop
SettleFairness ==
    /\ WF_vars(TransportFailure \/ ResponseArrives)
    /\ WF_vars(ErrorBodyRead)
    /\ WF_vars(BodyRead)

\* the ResumeAnalyzer component with a network that answers
SpecLive == Init /\ [][Next]_vars /\ SettleFairness

NextFmt == RenderFileSize

\* formatFileSize applied to the sizes of SizeInputs
SpecFmt == Init /\ [][NextFmt]_vars

====
